---- MODULE Spec2Model ----
(***************************************************************************)
(* Model of gui.py: the fuzzy search over the ableton_live_sets table and  *)
(* the PyQt5 window that shows its result.                                 *)
(*                                                                         *)
(* A Python str is a sequence of one-character strings.  A value fetched   *)
(* from SQLite is a record [t, s, n]: t = "null" (None), t = "str" (s is   *)
(* the text) or t = "int" (n is the number).  A row is a sequence of       *)
(* values.  Positions are 1-based here and 0-based in the source.          *)
(* columns_info keeps only element [1] of each PRAGMA table_info tuple,    *)
(* the column name, which is the only element the source reads.            *)
(***************************************************************************)
EXTENDS Integers, Sequences, FiniteSets, TLC

VARIABLES
    db_columns,     \* the store: columns of ableton_live_sets now, <<>> = no table
    db_rows,        \* the store: its rows, in the order SELECT * fetches them
    db_readable,    \* the store: whether cursor.execute succeeds on the file
    columns_info,   \* module global: the schema read once at import
    headers,        \* SearchApp.headers
    columnCount,    \* result_table's column count
    text,           \* search_line_edit's text
    items,          \* result_table's rows, each a sequence of columnCount cells
    open_conns,     \* sqlite3 connections opened and not closed
    status,         \* "running" or "aborted" (the Qt process)
    schema_changes, \* number of ALTER TABLE statements run on the store so far
    pc,             \* direct calls: "idle" before the call, "returned" after it
    query,          \* direct calls: the query argument
    row,            \* direct call of get_best_match_score: the row argument
    best_score,     \* direct call of get_best_match_score: the value returned
    top_matches     \* direct call of perform_fuzzy_search: the value returned

vars == <<db_columns, db_rows, db_readable, columns_info, headers, columnCount,
          text, items, open_conns, status, schema_changes,
          pc, query, row, best_score, top_matches>>

-----------------------------------------------------------------------------
(* Bounds of the model *)

\* longest store a direct call of perform_fuzzy_search is given
MaxRows == 11
\* longest store of a window session
MaxSessionRows == 2
\* ALTER TABLE statements run on the store during a window session
MaxSchemaChanges == 1
\* connections left open before the model stops searching
MaxConns == 2
\* longest block of rows that a store given to a direct call repeats
MaxBlock == 3

-----------------------------------------------------------------------------
(* Python values and strings *)

None == [t |-> "null", s |-> <<>>, n |-> 0]
StrV(s) == [t |-> "str", s |-> s, n |-> 0]
IntV(n) == [t |-> "int", s |-> <<>>, n |-> n]

Max(a, b) == IF a >= b THEN a ELSE b
Min(a, b) == IF a <= b THEN a ELSE b

DigitChar(d) ==
    CASE d = 0 -> "0" [] d = 1 -> "1" [] d = 2 -> "2" [] d = 3 -> "3"
      [] d = 4 -> "4" [] d = 5 -> "5" [] d = 6 -> "6" [] d = 7 -> "7"
      [] d = 8 -> "8" [] d = 9 -> "9"

RECURSIVE Digits(_)
Digits(n) ==
    IF n < 10 THEN <<DigitChar(n)>>
    ELSE Append(Digits(n \div 10), DigitChar(n % 10))

\* str(value): a str is itself, an int its decimal digits, None the text "None"
Str(v) ==
    CASE v.t = "str" -> v.s
      [] v.t = "int" -> Digits(v.n)
      [] v.t = "null" -> <<"N", "o", "n", "e">>

LowerChar(c) ==
    CASE c = "A" -> "a"
      [] c = "B" -> "b"
      [] c = "N" -> "n"
      [] OTHER -> c

\* str.lower()
Lower(s) == [i \in 1..Len(s) |-> LowerChar(s[i])]

-----------------------------------------------------------------------------
(* fuzz.ratio, as gui.py line 62 calls it *)

\* the number of matching characters of the alignment: for the strings of
\* this model (at most two characters) difflib's matching blocks and the
\* Levenshtein alignment both find a longest common subsequence
RECURSIVE MatchingChars(_, _)
MatchingChars(s1, s2) ==
    IF s1 = <<>> \/ s2 = <<>> THEN 0
    ELSE IF Head(s1) = Head(s2) THEN 1 + MatchingChars(Tail(s1), Tail(s2))
    ELSE Max(MatchingChars(Tail(s1), s2), MatchingChars(s1, Tail(s2)))

\* int(round(100 * 2M/T)): round half to even
intr(num, den) ==
    LET q == num \div den
        r == num % den
    IN  IF 2 * r < den THEN q
        ELSE IF 2 * r > den THEN q + 1
        ELSE IF q % 2 = 0 THEN q ELSE q + 1

\* equal strings score 100, then an empty string scores 0, otherwise 2M/T
ratio(s1, s2) ==
    IF s1 = s2 THEN 100
    ELSE IF Len(s1) = 0 \/ Len(s2) = 0 THEN 0
    ELSE intr(200 * MatchingChars(s1, s2), Len(s1) + Len(s2))

-----------------------------------------------------------------------------
(* get_best_match_score *)

\* the list literal of perform_fuzzy_search, used with "in"
exclude_columns ==
    {"uuid", "identifier", "xml_root", "path", "file_hash", "last_scan_timestamp"}

\* row[index] raises IndexError: a column that is scored lies beyond the row
ScoreRaises(r, excl) ==
    \E index \in 1..Len(columns_info) :
        columns_info[index] \notin excl /\ index > Len(r)

\* FieldCounts with a fault: the name test of line 61 is gone
FieldCountsAny(r, index, excl) == r[index] # None

\* line 61: the field is scored
FieldCounts(r, index, excl) ==
    columns_info[index] \notin excl /\ r[index] # None

\* BestOf with a fault: best_score = best_score + score
BestOfSum(best, score) == best + score

\* line 63
BestOf(best, score) == Max(best, score)

RECURSIVE ScoreLoop(_, _, _, _, _)
ScoreLoop(r, q, excl, index, best) ==
    IF index > Len(columns_info) THEN best
    ELSE IF FieldCounts(r, index, excl)
         THEN ScoreLoop(r, q, excl, index + 1,
                        BestOf(best, ratio(Lower(Str(r[index])), Lower(q))))
         ELSE ScoreLoop(r, q, excl, index + 1, best)

get_best_match_score(r, q, excl) == ScoreLoop(r, q, excl, 1, 0)

-----------------------------------------------------------------------------
(* perform_fuzzy_search *)

\* the slice bound of line 79
top_k == 10

\* line 75: a (row, score) pair per fetched row
match_scores(all_rows, q) ==
    [i \in 1..Len(all_rows) |->
        <<all_rows[i], get_best_match_score(all_rows[i], q, exclude_columns)>>]

\* Precedes with a fault: the new pair goes before the pairs of equal score
PrecedesOrTies(x, y) == x[2] >= y[2]

\* Precedes with a fault: reverse=True is gone
PrecedesAscending(x, y) == x[2] < y[2]

\* sorted(..., reverse=True) keeps x, met later, behind y unless x's key is larger
Precedes(x, y) == x[2] > y[2]

RECURSIVE InsertSorted(_, _)
InsertSorted(x, s) ==
    IF s = <<>> THEN <<x>>
    ELSE IF Precedes(x, Head(s)) THEN <<x>> \o s
    ELSE <<Head(s)>> \o InsertSorted(x, Tail(s))

\* line 77: a stable sort by score, descending
RECURSIVE SortFrom(_, _, _)
SortFrom(pairs, i, acc) ==
    IF i > Len(pairs) THEN acc
    ELSE SortFrom(pairs, i + 1, InsertSorted(pairs[i], acc))

sorted_matches(pairs) == SortFrom(pairs, 1, <<>>)

\* Slice with a fault: rows of score 0 are filtered out before the slice
SliceNonZero(s) ==
    LET nz == SelectSeq(s, LAMBDA x : x[2] > 0)
    IN  SubSeq(nz, 1, Min(top_k, Len(nz)))

\* Slice with a fault: the slice stops one short
SliceShort(s) == SubSeq(s, 1, Min(top_k, Len(s)) - 1)

\* line 79: sorted_matches[:10]
Slice(s) == SubSeq(s, 1, Min(top_k, Len(s)))

\* lines 75-79, the value of a call that reaches line 83
SearchValue(all_rows, q) == Slice(sorted_matches(match_scores(all_rows, q)))

\* sqlite3.connect raises nothing here: the file was opened at import
\* cursor.execute raises: the file cannot be read, or the table is not there
ExecuteRaises == ~db_readable \/ db_columns = <<>>

\* the call leaves by an exception: at line 72 or in line 75
SearchRaises ==
    ExecuteRaises \/ \E i \in 1..Len(db_rows) : ScoreRaises(db_rows[i], exclude_columns)

\* lines 69 and 81: connect, and close only when line 81 is reached
ConnsAfter(raised) == IF raised THEN open_conns + 1 ELSE open_conns

-----------------------------------------------------------------------------
(* SearchApp *)

\* the list literal of lines 91-95
header_excluded ==
    {"uuid", "identifier", "xml_root", "path", "file_hash", "last_scan_timestamp"}

\* the list literal of lines 99-104, whose len() is subtracted
count_excluded ==
    <<"uuid", "identifier", "xml_root", "path", "file_hash", "last_scan_timestamp">>

\* the list literal of lines 130-136
display_excluded ==
    {"uuid", "identifier", "xml_root", "path", "file_hash", "last_scan_timestamp"}

\* lines 91-95
HeadersOf(info) == SelectSeq(info, LAMBDA name : name \notin header_excluded)

\* QTableWidget.setColumnCount on the new, empty table: a negative count is ignored
setColumnCount(count) == IF count < 0 THEN 0 ELSE count

\* lines 99-104
ColumnCountOf(info) == setColumnCount(Len(info) - Len(count_excluded))

\* a cell with no item, and the cell QTableWidgetItem(str) makes
NoItem == [set |-> FALSE, text |-> <<>>]
Item(s) == [set |-> TRUE, text |-> s]

\* QTableWidget.setRowCount: rows beyond count go, new rows hold no items
setRowCount(tbl, count) ==
    [r \in 1..count |->
        IF r <= Len(tbl) THEN tbl[r] ELSE [c \in 1..columnCount |-> NoItem]]

\* QTableWidget.setItem: a cell outside the table is not set
setItem(tbl, r, c, s) ==
    IF r \in 1..Len(tbl) /\ c \in 1..columnCount
    THEN [tbl EXCEPT ![r][c] = Item(s)]
    ELSE tbl

\* self.headers.index(column_name)
HeaderIndex(name) == CHOOSE i \in 1..Len(headers) :
    headers[i] = name /\ \A j \in 1..(i - 1) : headers[j] # name

\* ShownValue with a fault: a None value sets no item
ShownValueSkipNone(tbl, r, name, value) ==
    IF value = None THEN tbl ELSE setItem(tbl, r, HeaderIndex(name), Str(value))

\* line 137
ShownValue(tbl, r, name, value) == setItem(tbl, r, HeaderIndex(name), Str(value))

\* lines 128-137 for one match: [tbl, raised], raised when columns_info[col_index]
\* raises IndexError
RECURSIVE FillRow(_, _, _, _)
FillRow(tbl, r, match_row, col_index) ==
    IF col_index > Len(match_row) THEN [tbl |-> tbl, raised |-> FALSE]
    ELSE IF col_index > Len(columns_info) THEN [tbl |-> tbl, raised |-> TRUE]
    ELSE IF columns_info[col_index] \notin display_excluded
         THEN FillRow(ShownValue(tbl, r, columns_info[col_index], match_row[col_index]),
                      r, match_row, col_index + 1)
         ELSE FillRow(tbl, r, match_row, col_index + 1)

\* lines 127-137
RECURSIVE FillTable(_, _, _)
FillTable(tbl, matches, r) ==
    IF r > Len(matches) THEN [tbl |-> tbl, raised |-> FALSE]
    ELSE LET filled == FillRow(tbl, r, matches[r][1], 1)
         IN  IF filled.raised THEN filled ELSE FillTable(filled.tbl, matches, r + 1)

\* lines 126-137: what perform_search does with the matches
Shown(tbl, matches) == FillTable(setRowCount(tbl, Len(matches)), matches, 1)

\* perform_search with text q leaves by an exception
HandlerRaises(q) ==
    /\ q # <<>>
    /\ \/ SearchRaises
       \/ Shown(items, SearchValue(db_rows, q)).raised

\* the table perform_search leaves
HandlerItems(q) ==
    IF q = <<>> THEN setRowCount(items, 0)
    ELSE IF SearchRaises THEN items
    ELSE Shown(items, SearchValue(db_rows, q)).tbl

-----------------------------------------------------------------------------
(* The window session: the state after SearchApp() and the events on it *)

\* the schemas the store may have when the module is imported
InitSchemas ==
    { <<"uuid", "name", "identifier", "xml_root", "path", "tempo",
        "file_hash", "last_scan_timestamp">>,
      <<"name", "path", "tempo">>,
      <<"path", "name", "uuid">>,
      <<"name", "tempo">>,
      <<>> }

\* the columns ALTER TABLE may add
AddableColumns == {"creator"}

\* the texts typed into the search line
Texts == { <<>>, <<"a", "b">>, <<"B">> }

\* the kinds of project another process stores
Kinds == {1, 2}

\* the value the k-th kind of project has in a column
Cell(k, name) ==
    CASE name = "name" -> IF k = 1 THEN StrV(<<"A", "b">>) ELSE StrV(<<"b">>)
      [] name = "tempo" -> IF k = 1 THEN IntV(7) ELSE None
      [] name = "path" -> IF k = 1 THEN StrV(<<"b">>) ELSE StrV(<<"a", "b">>)
      [] name = "uuid" -> IF k = 1 THEN StrV(<<"a">>) ELSE StrV(<<"B">>)
      [] OTHER -> None

\* a third kind, for direct calls: its name differs from kind 1's in case only
CellOf(k, name) ==
    IF k = 3
    THEN (IF name = "name" THEN StrV(<<"a", "B">>) ELSE None)
    ELSE Cell(k, name)

RowOf(k, columns) == [i \in 1..Len(columns) |-> CellOf(k, columns[i])]

\* a sequence without its i-th element
Without(s, i) == SubSeq(s, 1, i - 1) \o SubSeq(s, i + 1, Len(s))

\* lines 51-55 and SearchApp.__init__
Init ==
    /\ db_columns \in InitSchemas
    /\ db_rows = <<>>
    /\ db_readable = TRUE
    /\ columns_info = db_columns
    /\ headers = HeadersOf(columns_info)
    /\ columnCount = ColumnCountOf(columns_info)
    /\ text = <<>>
    /\ items = <<>>
    /\ open_conns = 0
    /\ status = "running"
    /\ schema_changes = 0
    /\ pc = "idle"
    /\ query = <<>>
    /\ row = <<>>
    /\ best_score = 0
    /\ top_matches = <<>>

\* textChanged fires when the text changes and runs perform_search to its end;
\* an exception that leaves the slot ends the process (PyQt5 from 5.5) or is
\* printed and dropped (before)
TextChanged(t) ==
    /\ status = "running"
    /\ t # text
    /\ open_conns < MaxConns
    /\ text' = t
    /\ items' = HandlerItems(t)
    /\ open_conns' = IF t = <<>> THEN open_conns ELSE ConnsAfter(SearchRaises)
    /\ status' \in IF HandlerRaises(t) THEN {"running", "aborted"} ELSE {"running"}
    /\ UNCHANGED <<db_columns, db_rows, db_readable, columns_info, headers,
                   columnCount, schema_changes, pc, query, row, best_score,
                   top_matches>>

\* another process adds a project to the store
InsertRow(k) ==
    /\ status = "running"
    /\ db_columns # <<>>
    /\ Len(db_rows) < MaxSessionRows
    /\ db_rows' = Append(db_rows, RowOf(k, db_columns))
    /\ UNCHANGED <<db_columns, db_readable, columns_info, headers, columnCount,
                   text, items, open_conns, status, schema_changes,
                   pc, query, row, best_score, top_matches>>

\* another process deletes a project from the store
DeleteRow(i) ==
    /\ status = "running"
    /\ i \in 1..Len(db_rows)
    /\ db_rows' = Without(db_rows, i)
    /\ UNCHANGED <<db_columns, db_readable, columns_info, headers, columnCount,
                   text, items, open_conns, status, schema_changes,
                   pc, query, row, best_score, top_matches>>

\* ALTER TABLE ableton_live_sets ADD COLUMN: the column comes last, NULL in every row
AddColumn(name) ==
    /\ status = "running"
    /\ db_columns # <<>>
    /\ schema_changes < MaxSchemaChanges
    /\ \A i \in 1..Len(db_columns) : db_columns[i] # name
    /\ db_columns' = Append(db_columns, name)
    /\ db_rows' = [r \in 1..Len(db_rows) |-> Append(db_rows[r], None)]
    /\ schema_changes' = schema_changes + 1
    /\ UNCHANGED <<db_readable, columns_info, headers, columnCount,
                   text, items, open_conns, status,
                   pc, query, row, best_score, top_matches>>

\* ALTER TABLE ableton_live_sets DROP COLUMN: not the only column of a table
DropColumn(i) ==
    /\ status = "running"
    /\ Len(db_columns) > 1
    /\ i \in 1..Len(db_columns)
    /\ schema_changes < MaxSchemaChanges
    /\ db_columns' = Without(db_columns, i)
    /\ db_rows' = [r \in 1..Len(db_rows) |-> Without(db_rows[r], i)]
    /\ schema_changes' = schema_changes + 1
    /\ UNCHANGED <<db_readable, columns_info, headers, columnCount,
                   text, items, open_conns, status,
                   pc, query, row, best_score, top_matches>>

\* the file becomes unreadable (locked, damaged) or readable again
StoreFlips ==
    /\ status = "running"
    /\ db_readable' = ~db_readable
    /\ UNCHANGED <<db_columns, db_rows, columns_info, headers, columnCount,
                   text, items, open_conns, status, schema_changes,
                   pc, query, row, best_score, top_matches>>

Next ==
    \/ \E t \in Texts : TextChanged(t)
    \/ \E k \in Kinds : InsertRow(k)
    \/ \E i \in 1..Len(db_rows) : DeleteRow(i)
    \/ \E name \in AddableColumns : AddColumn(name)
    \/ \E i \in 1..Len(db_columns) : DropColumn(i)
    \/ StoreFlips

Spec == Init /\ [][Next]_vars

-----------------------------------------------------------------------------
(* Direct calls of perform_fuzzy_search on a readable store *)

RankSchema == <<"name", "path", "tempo">>

RankKinds == {1, 2, 3}

RankQueries == { <<>>, <<"a", "b">>, <<"B">>, <<"c">> }

\* every store of n rows that repeats a block of m rows of any kind
Repeated(n, m) ==
    {[i \in 1..n |-> RowOf(block[((i - 1) % m) + 1], RankSchema)] :
        block \in [1..m -> RankKinds]}

\* so every store of up to MaxBlock rows, and longer ones of all three kinds
RankStores == UNION {Repeated(n, m) : n \in 0..MaxRows, m \in 1..MaxBlock}

InitRank ==
    /\ db_columns = RankSchema
    /\ db_rows \in RankStores
    /\ db_readable = TRUE
    /\ columns_info = db_columns
    /\ headers = HeadersOf(columns_info)
    /\ columnCount = ColumnCountOf(columns_info)
    /\ text = <<>>
    /\ items = <<>>
    /\ open_conns = 0
    /\ status = "running"
    /\ schema_changes = 0
    /\ pc = "idle"
    /\ query \in RankQueries
    /\ row = <<>>
    /\ best_score = 0
    /\ top_matches = <<>>

\* top_matches = perform_fuzzy_search(query)
CallPerformFuzzySearch ==
    /\ pc = "idle"
    /\ ~SearchRaises
    /\ top_matches' = SearchValue(db_rows, query)
    /\ open_conns' = ConnsAfter(FALSE)
    /\ pc' = "returned"
    /\ UNCHANGED <<db_columns, db_rows, db_readable, columns_info, headers,
                   columnCount, text, items, status, schema_changes,
                   query, row, best_score>>

NextRank == CallPerformFuzzySearch

SpecRank == InitRank /\ [][NextRank]_vars

-----------------------------------------------------------------------------
(* Direct calls of get_best_match_score on a row of the schema *)

ScoreSchemas == { <<"name", "path", "tempo", "uuid">>, <<"file_hash", "name">> }

ScoreValues ==
    { None, StrV(<<>>), StrV(<<"a", "b">>), StrV(<<"B">>), IntV(7) }

ScoreQueries == { <<>>, <<"A", "b">>, <<"b">>, <<"7">> }

InitScore ==
    /\ db_columns \in ScoreSchemas
    /\ db_rows = <<>>
    /\ db_readable = TRUE
    /\ columns_info = db_columns
    /\ headers = HeadersOf(columns_info)
    /\ columnCount = ColumnCountOf(columns_info)
    /\ text = <<>>
    /\ items = <<>>
    /\ open_conns = 0
    /\ status = "running"
    /\ schema_changes = 0
    /\ pc = "idle"
    /\ query \in ScoreQueries
    /\ row \in [1..Len(columns_info) -> ScoreValues]
    /\ best_score = 0
    /\ top_matches = <<>>

\* best_score = get_best_match_score(row, query, exclude_columns)
CallGetBestMatchScore ==
    /\ pc = "idle"
    /\ ~ScoreRaises(row, exclude_columns)
    /\ best_score' = get_best_match_score(row, query, exclude_columns)
    /\ pc' = "returned"
    /\ UNCHANGED <<db_columns, db_rows, db_readable, columns_info, headers,
                   columnCount, text, items, open_conns, status, schema_changes,
                   query, row, top_matches>>

NextScore == CallGetBestMatchScore

SpecScore == InitScore /\ [][NextScore]_vars

-----------------------------------------------------------------------------
(* Claims about get_best_match_score, under SpecScore *)

\* the positions of row whose column is not excluded and whose value is not None
ScoredPositions ==
    {i \in 1..Len(columns_info) :
        columns_info[i] \notin exclude_columns /\ row[i] # None}

\* the similarity of every scored field to the query
FieldScores == {ratio(Lower(Str(row[i])), Lower(query)) : i \in ScoredPositions}

\* r2 is row but for the values of excluded columns
DiffersInExcludedOnly(r2) ==
    \A i \in 1..Len(columns_info) :
        columns_info[i] \notin exclude_columns => r2[i] = row[i]

\* C4: two rows that differ only in the values of excluded columns, null or
\* not, get the same score for the same query
C4_ExcludedFieldsDoNotScore ==
    pc = "returned" =>
        \A r2 \in [1..Len(columns_info) -> ScoreValues] :
            DiffersInExcludedOnly(r2) =>
                get_best_match_score(r2, query, exclude_columns) = best_score

\* a scored row whose excluded field is closer to the query than any scored field
C4_Witness ==
    /\ pc = "returned"
    /\ \E i \in 1..Len(columns_info) :
        /\ columns_info[i] \in exclude_columns
        /\ row[i] # None
        /\ ratio(Lower(Str(row[i])), Lower(query)) > best_score

\* C6: the score is the largest similarity among the fields that are neither
\* excluded nor null, and 0 when there is no such field
C6_ScoreIsMaxOfFields ==
    pc = "returned" =>
        IF FieldScores = {} THEN best_score = 0
        ELSE /\ best_score \in FieldScores
             /\ \A x \in FieldScores : x <= best_score

\* a scored row with two fields of different, positive similarity
C6_Witness ==
    /\ pc = "returned"
    /\ \E x, y \in FieldScores : 0 < x /\ x < y /\ best_score = y

-----------------------------------------------------------------------------
(* Claims about perform_fuzzy_search, under SpecRank *)

\* C1: the returned list holds min(top_k, |R|) entries
C1_LengthIsMinTopK ==
    pc = "returned" => Len(top_matches) = Min(top_k, Len(db_rows))

\* a call on a store of more than top_k rows that returned top_k of them
C1_Witness ==
    /\ pc = "returned"
    /\ Len(db_rows) > top_k
    /\ Len(top_matches) = top_k

\* C2 as stated: the empty query returns an empty list whatever the store holds
C2_EmptyQueryEmptyResult ==
    (pc = "returned" /\ query = <<>>) => top_matches = <<>>

\* C2 as amended: for the empty query the call returns min(top_k, |R|) entries
\* like for any other query, so an empty list only when the store is empty
C2_EmptyQueryReturnsRecords ==
    (pc = "returned" /\ query = <<>>) =>
        /\ Len(top_matches) = Min(top_k, Len(db_rows))
        /\ top_matches = <<>> <=> db_rows = <<>>

\* a call with the empty query on a store of more than top_k rows
C2_Witness ==
    /\ pc = "returned"
    /\ query = <<>>
    /\ Len(db_rows) > top_k
    /\ Len(top_matches) = top_k

\* the score of the i-th fetched row
ScoreOf(i) == get_best_match_score(db_rows[i], query, exclude_columns)

\* the number of fetched rows that go before the i-th: those of a higher score,
\* and those of the same score fetched earlier
RankOf(scores, i) ==
    Cardinality({j \in 1..Len(db_rows) :
        scores[j] > scores[i] \/ (scores[j] = scores[i] /\ j < i)})

\* C3: the returned list is the first top_k of the fetched rows ordered by
\* score descending, rows of equal score in fetched order: the row with r rows
\* before it in that order is at position r + 1 when r < top_k, left out otherwise
C3_StableDescendingTopK ==
    pc = "returned" =>
        LET scores == [i \in 1..Len(db_rows) |-> ScoreOf(i)]
        IN  /\ Len(top_matches) <= top_k
            /\ \A i \in 1..Len(db_rows) :
                LET r == RankOf(scores, i)
                IN  IF r < top_k
                    THEN /\ r + 1 <= Len(top_matches)
                         /\ top_matches[r + 1] = <<db_rows[i], scores[i]>>
                    ELSE r >= Len(top_matches)

\* a returned list with two different rows of one score, and a later row that
\* took the place of one of the first top_k fetched
C3_Witness ==
    /\ pc = "returned"
    /\ \E i, j \in 1..Len(top_matches) :
        /\ i < j
        /\ top_matches[i][2] = top_matches[j][2]
        /\ top_matches[i][1] # top_matches[j][1]
    /\ \E i \in 1..top_k, j \in (top_k + 1)..Len(db_rows) : ScoreOf(j) > ScoreOf(i)

\* r has a scored field equal to the query when case is ignored
IsExact(r) ==
    \E i \in 1..Len(columns_info) :
        /\ columns_info[i] \notin exclude_columns
        /\ r[i] # None
        /\ Lower(Str(r[i])) = Lower(query)

\* no scored field of r scores 100 against the query
NoFieldScores100(r) ==
    \A i \in 1..Len(columns_info) :
        (columns_info[i] \notin exclude_columns /\ r[i] # None)
            => ratio(Lower(Str(r[i])), Lower(query)) # 100

\* C5: before every returned row without a field that scores 100 come all the
\* rows of the store that have a field equal to the query ignoring case
C5_ExactMatchRanksAbove ==
    pc = "returned" =>
        \A j \in 1..Len(top_matches) :
            NoFieldScores100(top_matches[j][1]) =>
                Cardinality({i \in 1..(j - 1) : IsExact(top_matches[i][1])})
                    = Cardinality({a \in 1..Len(db_rows) : IsExact(db_rows[a])})

\* an exact match fetched after a row that scores below 100, both returned
C5_Witness ==
    /\ pc = "returned"
    /\ \E a, b \in 1..Len(db_rows) :
        /\ b < a
        /\ IsExact(db_rows[a])
        /\ NoFieldScores100(db_rows[b])
        /\ \E j \in 1..Len(top_matches) : top_matches[j][1] = db_rows[b]

-----------------------------------------------------------------------------
(* Claims about the window session, under Spec *)

\* C7: the table has one column per schema field that is not excluded, in
\* schema order: the headers are those names and the column count is their number
C7_ColumnPerVisibleField ==
    /\ headers = SelectSeq(columns_info, LAMBDA name : name \notin exclude_columns)
    /\ columnCount = Len(headers)

\* C8: whenever a search scores or shows rows, every fetched row has one value
\* per field of the schema read at startup, and the value at position i is the
\* store's value of the column that the schema names at position i
C8_RowsAlignedWithSchema ==
    [][(text' # text /\ text' # <<>> /\ ~ExecuteRaises) =>
        \A r \in 1..Len(db_rows) :
            /\ Len(db_rows[r]) = Len(columns_info)
            /\ \A i \in 1..Len(columns_info) :
                i <= Len(db_columns) /\ db_columns[i] = columns_info[i]]_vars

\* C9: between searches no connection is open, whether the search before
\* returned or raised
C9_NoConnectionHeld == open_conns = 0

\* the position in a fetched row that the code reads for a column name
PositionOf(name) == CHOOSE i \in 1..Len(columns_info) : columns_info[i] = name

\* the table built from nothing for text q: no row for the empty text, otherwise
\* a row per returned entry, each displayed cell the str() of the entry's value
\* for the cell's header
TableFor(q) ==
    IF q = <<>> THEN <<>>
    ELSE LET matches == SearchValue(db_rows, q)
         IN  [r \in 1..Len(matches) |->
                [c \in 1..columnCount |->
                    Item(Str(matches[r][1][PositionOf(headers[c])]))]]

\* C10: when perform_search has run to its end for a changed text, the table
\* is the one built from nothing for that text and the store as it is: nothing
\* of an earlier result is left
C10_TableShowsCurrentResult ==
    [][(text' # text /\ ~HandlerRaises(text')) => items' = TableFor(text')]_vars

\* a table of two rows and two columns that shows the result for the text
C10_Witness ==
    /\ status = "running"
    /\ text # <<>>
    /\ ~HandlerRaises(text)
    /\ Len(items) >= 2
    /\ columnCount >= 2
    /\ items = TableFor(text)
    /\ \E r \in 1..Len(items), c \in 1..columnCount : items[r][c] = Item(Str(None))

====
